---- MODULE Spec2Model ----
(***************************************************************************)
(* bang: a URL shortener.  Every record lives in a valkey list keyed by    *)
(* its slug: [redirect, admin key, click counter].  Strings are modelled   *)
(* as sequences of one-character strings, so that concatenation, regular   *)
(* expression matching and decimal conversion are computed, not assumed.   *)
(***************************************************************************)
EXTENDS Integers, Sequences, FiniteSets, Bags, TLC

\* ---------------------------------------------------------------- bounds
\* Requests the HTTP layer accepts in one run of the model.
MaxRequests == 4

\* ------------------------------------------------------ program constants
\* RandStr(64)
KeyLen == 64

\* The statuses the handlers answer with, by what the client is told.
StatusOK == "200 OK"
StatusBadRequest == "400 Bad Request"
StatusUnauthorized == "401 Unauthorized"
StatusInternalServerError == "500 Internal Server Error"
\* c.Redirect().To(val)
StatusRedirect == "3xx redirect"
\* The handler has not answered yet.
NoStatus == "none"

\* const chars
chars ==
    << "a","b","c","d","e","f","g","h","i","j","k","l","m",
       "n","o","p","q","r","s","t","u","v","w","x","y","z",
       "A","B","C","D","E","F","G","H","I","J","K","L","M",
       "N","O","P","Q","R","S","T","U","V","W","X","Y","Z",
       "0","1","2","3","4","5","6","7","8","9" >>

Range(s) == { s[i] : i \in DOMAIN s }

\* ------------------------------------------------------------ RandStr
\* Seeded fault: the table is the 64 characters of base64url and the
\* modulus its length.
RandStrBase64(bytes) ==
    [ i \in 1..Len(bytes) |-> (chars \o << "-", "_" >>)[(bytes[i] % 64) + 1] ]

\* bytes[i] = chars[b % byte(len(chars))] over the bytes rand.Read delivered.
RandStr(bytes) ==
    [ i \in 1..Len(bytes) |-> chars[(bytes[i] % Len(chars)) + 1] ]

\* fmt.Sprintf("!%v", slug)
SlugOf(bytes) == <<"!">> \o RandStr(bytes)

\* --------------------------------------------------------- ValidateUrl
\* [a-zA-Z]
LetterClass == { chars[i] : i \in 1..52 }
\* [a-zA-Z0-9.-]
HostClass == Range(chars) \cup {".", "-"}

HasPrefix(str, pre) ==
    /\ Len(str) >= Len(pre)
    /\ \A i \in 1..Len(pre) : str[i] = pre[i]

\* [a-zA-Z0-9.-]+\.[a-zA-Z]{2,}$ matched against str from position p+1 on:
\* i is the position of the literal dot.
MatchHostTld(str, p) ==
    \E i \in (p + 2)..(Len(str) - 2) :
        /\ str[i] = "."
        /\ \A j \in (p + 1)..(i - 1) : str[j] \in HostClass
        /\ \A j \in (i + 1)..Len(str) : str[j] \in LetterClass

SchemeHttp == <<"h","t","t","p",":","/","/">>
SchemeHttps == <<"h","t","t","p","s",":","/","/">>

\* Seeded fault: the pattern without its scheme, so that any prefix passes.
ValidateUrlAnyScheme(str) ==
    \E p \in 0..Len(str) : MatchHostTld(str, p)

ValidateUrl(str) ==
    \/ HasPrefix(str, SchemeHttp) /\ MatchHostTld(str, Len(SchemeHttp))
    \/ HasPrefix(str, SchemeHttps) /\ MatchHostTld(str, Len(SchemeHttps))

\* ------------------------------------------------- fmt.Sprint / strconv.Atoi
Digits == <<"0","1","2","3","4","5","6","7","8","9">>

RECURSIVE Sprint(_)
Sprint(n) ==
    IF n < 10 THEN << Digits[n + 1] >>
    ELSE Sprint(n \div 10) \o << Digits[(n % 10) + 1] >>

DigitVal(c) == CHOOSE d \in 0..9 : Digits[d + 1] = c

RECURSIVE DigitsVal(_)
DigitsVal(s) ==
    IF s = <<>> THEN 0
    ELSE 10 * DigitsVal(SubSeq(s, 1, Len(s) - 1)) + DigitVal(s[Len(s)])

IsDigits(s) == s # <<>> /\ \A i \in 1..Len(s) : s[i] \in Range(Digits)

\* valint, _ := strconv.Atoi(val): the value is 0 when val is no integer.
Atoi(s) ==
    IF IsDigits(s) THEN DigitsVal(s)
    ELSE IF Len(s) > 1 /\ s[1] = "+" /\ IsDigits(Tail(s)) THEN DigitsVal(Tail(s))
    ELSE IF Len(s) > 1 /\ s[1] = "-" /\ IsDigits(Tail(s)) THEN 0 - DigitsVal(Tail(s))
    ELSE 0

\* ------------------------------------------------------- the valkey store
\* A key exists exactly when it holds a non-empty list.
Exists(st, k) == k \in DOMAIN st

\* RPUSH key element...: appends, creating the list when the key is absent.
Rpush(st, k, elems) ==
    IF Exists(st, k) THEN [st EXCEPT ![k] = @ \o elems]
    ELSE [ x \in DOMAIN st \cup {k} |-> IF x = k THEN elems ELSE st[x] ]

\* LINDEX key index, then ToString(): nil (no key, index out of range) is an
\* error of ToString.
Lindex(st, k, i) ==
    IF Exists(st, k) /\ i < Len(st[k])
    THEN [err |-> FALSE, val |-> st[k][i + 1]]
    ELSE [err |-> TRUE, val |-> <<>>]

\* LSET key index element: an error when there is no such key or index.
LsetErr(st, k, i) == ~(Exists(st, k) /\ i < Len(st[k]))

\* Seeded fault: a write that creates the list when the key is absent.
LsetOrCreate(st, k, i, v) ==
    IF ~Exists(st, k) THEN Rpush(st, k, <<v>>)
    ELSE IF i < Len(st[k]) THEN [st EXCEPT ![k][i + 1] = v]
    ELSE st

Lset(st, k, i, v) ==
    IF LsetErr(st, k, i) THEN st ELSE [st EXCEPT ![k][i + 1] = v]

\* DEL key
Del(st, k) == [ x \in DOMAIN st \ {k} |-> st[x] ]

\* ------------------------------------------------------------- inputs
NoStr == <<>>
Bang == <<"!">>
UrlHttp == <<"h","t","t","p",":","/","/","a",".","i","o">>
UrlHttps == <<"h","t","t","p","s",":","/","/","b","-","c",".","o","r","g">>
UrlFtp == <<"f","t","p",":","/","/","a",".","i","o">>
UrlShortTld == <<"h","t","t","p",":","/","/","a",".","b">>
UrlWithPath == <<"h","t","t","p",":","/","/","a",".","i","o","/","x">>

\* c.Query("url"): absent is the empty string.
UrlInputs == {NoStr, UrlHttp, UrlHttps, UrlFtp, UrlShortTld, UrlWithPath}

\* What rand.Read may deliver for the slug: the first two draws differ in
\* every byte but one and give the same slug, since 62, 124, 186 and 248
\* are 0 modulo len(chars).
SlugDraws ==
    { <<0, 0, 0, 0, 0>>, <<0, 62, 124, 186, 248>>, <<255, 61, 26, 52, 1>> }

\* What rand.Read may deliver for the admin key.
KeyDraws ==
    { [i \in 1..KeyLen |-> 0], [i \in 1..KeyLen |-> 255 - i] }

DrawnSlugs == { SlugOf(b) : b \in SlugDraws }
DrawnKeys == { RandStr(b) : b \in KeyDraws }

\* Every value a byte of rand.Read can take, and the steps between the
\* successive bytes of one draw.
ByteValues == 0..255
ByteSteps == {0, 1, 37}

\* A draw of n bytes that starts at b and advances by step, modulo 256.
BytesFrom(n, b, step) == [ i \in 1..n |-> (b + (i - 1) * step) % 256 ]

\* c.Params("slug") and c.Query("key")
SlugInputs == DrawnSlugs \cup {NoStr, Bang}
KeyInputs == DrawnKeys \cup {NoStr}

\* ---------------------------------------------------------------- state
VARIABLES
    store,    \* the valkey server: key -> list
    tasks,    \* bag of counter-increment goroutines spawned by GET /:slug
    stats,    \* bag of GET /clicks/:slug handlers past the admin key check
    dels,     \* bag of DELETE /:slug handlers past their first read
    last,     \* the most recent response sent
    phase,    \* main: serving, draining, stopped, closed, exited
    reqs,     \* requests accepted so far
    hist,     \* per slug: what has happened to it (history)
    seen      \* per slug: counters returned by Stats (history)

vars == <<store, tasks, stats, dels, last, phase, reqs, hist, seen>>

\* A response: its status, the slug and key of c.JSON (POST /new), and the
\* Location of a redirect or the text sent.
Response(op, status, slug, key, body) ==
    [op |-> op, status |-> status, slug |-> slug, key |-> key, body |-> body]

EmptyStore == [ x \in {} |-> <<>> ]

Init ==
    /\ store = EmptyStore
    /\ tasks = EmptyBag
    /\ stats = EmptyBag
    /\ dels = EmptyBag
    /\ last = Response("none", NoStatus, NoStr, NoStr, NoStr)
    /\ phase = "serving"
    /\ reqs = 0
    /\ hist = [ s \in DrawnSlugs |->
                  [creates |-> 0, lookups |-> 0, since |-> 0, writes |-> 0,
                   gone |-> FALSE] ]
    /\ seen = [ s \in DrawnSlugs |-> [any |-> {}, quiet |-> {}] ]

\* The HTTP layer hands a request to its handler.
Accepting == phase = "serving" /\ reqs < MaxRequests

\* A command reaches the server only while the client is open.
ClientOpen == phase \in {"serving", "draining", "stopped"}

\* A write to slug's list: what Stats returned before no longer binds.
Written(slug) ==
    IF slug \in DrawnSlugs THEN [seen EXCEPT ![slug].quiet = {}] ELSE seen

\* --------------------------------------------------------- POST /new
\* The outcome of the handler: fail names the call that returns an error.
NewOutcome(st, url, sb, kb, fail) ==
    LET slug == SlugOf(sb)
        key == RandStr(kb)
    IN  IF url = NoStr
        THEN [status |-> StatusBadRequest, slug |-> NoStr, key |-> NoStr, st |-> st]
        ELSE IF ~ValidateUrl(url)
        THEN [status |-> StatusBadRequest, slug |-> NoStr, key |-> NoStr, st |-> st]
        ELSE IF fail \in {"slug", "key"}
        THEN [status |-> StatusInternalServerError, slug |-> NoStr, key |-> NoStr, st |-> st]
        ELSE IF fail = "store"
        THEN [status |-> StatusInternalServerError, slug |-> NoStr, key |-> NoStr, st |-> st]
        ELSE [status |-> StatusOK, slug |-> slug, key |-> key,
              st |-> Rpush(st, slug, <<url, key, Sprint(0)>>)]

\* The call of the handler that returns an error, if any: rand.Read for
\* the slug, rand.Read for the key, RPUSH.  No call is made for a url the
\* handler rejects.
NewFailures(url) ==
    IF url = NoStr \/ ~ValidateUrl(url) THEN {"none"}
    ELSE {"none", "slug", "key", "store"}

\* The bytes rand.Read delivers: none when the handler returns before the
\* call or the call fails.
SlugBytes(url, fail) ==
    IF url = NoStr \/ ~ValidateUrl(url) \/ fail = "slug" THEN {<<>>}
    ELSE SlugDraws

KeyBytes(url, fail) ==
    IF url = NoStr \/ ~ValidateUrl(url) \/ fail \in {"slug", "key"} THEN {<<>>}
    ELSE KeyDraws

New(url, sb, kb, fail) ==
    /\ Accepting
    /\ reqs' = reqs + 1
    /\ UNCHANGED <<tasks, stats, dels, phase>>
    /\ LET out == NewOutcome(store, url, sb, kb, fail)
       IN  /\ last' = Response("new", out.status, out.slug, out.key, NoStr)
           /\ store' = out.st
           /\ hist' = IF out.status = StatusOK
                      THEN [hist EXCEPT ![out.slug].creates = @ + 1,
                                        ![out.slug].since =
                                            IF Exists(store, out.slug) THEN @ ELSE 0,
                                        ![out.slug].gone = FALSE]
                      ELSE hist
           /\ seen' = IF out.status = StatusOK THEN Written(out.slug) ELSE seen

\* --------------------------------------------------------- GET /:slug
\* Seeded fault: the handler reads the counter's position, not the url's.
GetOutcomeOfCounter(st, slug, ok) ==
    LET r == Lindex(st, slug, 2)
    IN  IF slug = NoStr \/ slug = Bang
        THEN [status |-> StatusBadRequest, body |-> NoStr, spawn |-> FALSE]
        ELSE IF ~ok \/ r.err \/ r.val = NoStr
        THEN [status |-> StatusBadRequest, body |-> NoStr, spawn |-> FALSE]
        ELSE [status |-> StatusRedirect, body |-> r.val, spawn |-> TRUE]

\* Seeded fault: the result of LINDEX is used without looking at err.
GetOutcomeUnchecked(st, slug, ok) ==
    LET r == Lindex(st, slug, 0)
    IN  IF slug = NoStr \/ slug = Bang
        THEN [status |-> StatusBadRequest, body |-> NoStr, spawn |-> FALSE]
        ELSE [status |-> StatusRedirect, body |-> r.val, spawn |-> TRUE]

\* The handler's read of position 0; ok: the command returned no error of
\* its own (the connection held).
GetOutcome(st, slug, ok) ==
    LET r == Lindex(st, slug, 0)
    IN  IF slug = NoStr \/ slug = Bang
        THEN [status |-> StatusBadRequest, body |-> NoStr, spawn |-> FALSE]
        ELSE IF ~ok \/ r.err \/ r.val = NoStr
        THEN [status |-> StatusBadRequest, body |-> NoStr, spawn |-> FALSE]
        ELSE [status |-> StatusRedirect, body |-> r.val, spawn |-> TRUE]

\* go func() { ... }: the goroutine starts at its LINDEX.
Task(slug) == [slug |-> slug, pc |-> "lindex", valint |-> 0]

Get(slug, ok) ==
    /\ Accepting
    /\ LET out == GetOutcome(store, slug, ok)
       IN  /\ last' = Response("get", out.status, NoStr, NoStr, out.body)
           /\ tasks' = IF out.spawn THEN tasks (+) SetToBag({Task(slug)}) ELSE tasks
           /\ hist' = IF out.spawn /\ slug \in DrawnSlugs
                      THEN [hist EXCEPT ![slug].lookups = @ + 1,
                                        ![slug].since = @ + 1]
                      ELSE hist
    /\ seen' = IF slug \in DrawnSlugs
               THEN [seen EXCEPT ![slug] = [any |-> {}, quiet |-> {}]]
               ELSE seen
    /\ reqs' = reqs + 1
    /\ UNCHANGED <<store, stats, dels, phase>>

\* The goroutine's LINDEX of position 2 and strconv.Atoi.
TaskRead(t, st, ok) ==
    LET r == Lindex(st, t.slug, 2)
    IN  IF ~ok \/ r.err THEN {}
        ELSE {[t EXCEPT !.pc = "lset", !.valint = Atoi(r.val)]}

TaskLindex(t, ok) ==
    /\ phase # "exited"
    /\ t \in BagToSet(tasks)
    /\ t.pc = "lindex"
    /\ ok => ClientOpen
    /\ tasks' = (tasks (-) SetToBag({t})) (+) SetToBag(TaskRead(t, store, ok))
    /\ UNCHANGED <<store, stats, dels, last, phase, reqs, hist, seen>>

\* Seeded fault: the LSET names index 1, the admin key's position.
TaskWriteAtKey(t, st, ok) ==
    IF ok THEN Lset(st, t.slug, 1, Sprint(t.valint + 1)) ELSE st

\* Seeded fault: the increment is one atomic command on the value the
\* server holds, not a write of the value the goroutine read.
TaskWriteAtomic(t, st, ok) ==
    IF ok /\ ~LsetErr(st, t.slug, 2)
    THEN Lset(st, t.slug, 2, Sprint(Atoi(Lindex(st, t.slug, 2).val) + 1))
    ELSE st

\* Seeded fault: the value read is written back without the increment.
TaskWriteSame(t, st, ok) ==
    IF ok THEN Lset(st, t.slug, 2, Sprint(t.valint)) ELSE st

\* The goroutine's LSET of position 2 to valint+1.
TaskWrite(t, st, ok) ==
    IF ok THEN Lset(st, t.slug, 2, Sprint(t.valint + 1)) ELSE st

TaskLset(t, ok) ==
    /\ phase # "exited"
    /\ t \in BagToSet(tasks)
    /\ t.pc = "lset"
    /\ ok => ClientOpen
    /\ store' = TaskWrite(t, store, ok)
    /\ tasks' = tasks (-) SetToBag({t})
    /\ hist' = IF ok /\ ~LsetErr(store, t.slug, 2)
               THEN [hist EXCEPT ![t.slug].writes = @ + 1]
               ELSE hist
    /\ seen' = IF ok /\ ~LsetErr(store, t.slug, 2) THEN Written(t.slug) ELSE seen
    /\ UNCHANGED <<stats, dels, last, phase, reqs>>

\* ---------------------------------------------------- GET /clicks/:slug
\* Seeded fault: the 401 answer carries the counter.
ClicksCheckLeaky(st, slug, key, ok) ==
    LET r == Lindex(st, slug, 1)
    IN  IF slug = NoStr \/ slug = Bang
        THEN [status |-> StatusBadRequest, body |-> NoStr, cont |-> FALSE]
        ELSE IF key = NoStr
        THEN [status |-> StatusBadRequest, body |-> NoStr, cont |-> FALSE]
        ELSE IF ~ok \/ r.err
        THEN [status |-> StatusBadRequest, body |-> NoStr, cont |-> FALSE]
        ELSE IF r.val # key
        THEN [status |-> StatusUnauthorized, body |-> Lindex(st, slug, 2).val,
              cont |-> FALSE]
        ELSE [status |-> NoStatus, body |-> NoStr, cont |-> TRUE]

\* The parameter checks and the read of position 1 (the admin key); cont:
\* the handler goes on to read position 2.
ClicksCheck(st, slug, key, ok) ==
    LET r == Lindex(st, slug, 1)
    IN  IF slug = NoStr \/ slug = Bang
        THEN [status |-> StatusBadRequest, body |-> NoStr, cont |-> FALSE]
        ELSE IF key = NoStr
        THEN [status |-> StatusBadRequest, body |-> NoStr, cont |-> FALSE]
        ELSE IF ~ok \/ r.err
        THEN [status |-> StatusBadRequest, body |-> NoStr, cont |-> FALSE]
        ELSE IF r.val # key
        THEN [status |-> StatusUnauthorized, body |-> NoStr, cont |-> FALSE]
        ELSE [status |-> NoStatus, body |-> NoStr, cont |-> TRUE]

Clicks(slug, key, ok) ==
    /\ Accepting
    /\ LET out == ClicksCheck(store, slug, key, ok)
       IN  IF out.cont
           THEN /\ stats' = stats (+) SetToBag({[slug |-> slug, key |-> key]})
                /\ last' = last
           ELSE /\ stats' = stats
                /\ last' = Response("clicks", out.status, NoStr, NoStr, out.body)
    /\ reqs' = reqs + 1
    /\ UNCHANGED <<store, tasks, dels, phase, hist, seen>>

\* Seeded fault: reading the counter also counts as a click.
ClicksReadCounting(st, slug, ok) ==
    LET r == Lindex(st, slug, 2)
    IN  IF ~ok \/ r.err
        THEN [status |-> StatusInternalServerError, body |-> NoStr, st |-> st]
        ELSE [status |-> StatusOK, body |-> r.val,
              st |-> Lset(st, slug, 2, Sprint(Atoi(r.val) + 1))]

\* The read of position 2 and the response; st: the store after the
\* command, which reads only.
ClicksRead(st, slug, ok) ==
    LET r == Lindex(st, slug, 2)
    IN  IF ~ok \/ r.err
        THEN [status |-> StatusInternalServerError, body |-> NoStr, st |-> st]
        ELSE [status |-> StatusOK, body |-> r.val, st |-> st]

ClicksLindex2(q, ok) ==
    /\ q \in BagToSet(stats)
    /\ LET out == ClicksRead(store, q.slug, ok)
       IN  /\ last' = Response("clicks", out.status, NoStr, NoStr, out.body)
           /\ store' = out.st
           /\ seen' = IF out.status = StatusOK /\ q.slug \in DrawnSlugs
                      THEN [seen EXCEPT ![q.slug] =
                               [any |-> @.any \cup {out.body},
                                quiet |-> @.quiet \cup {out.body}]]
                      ELSE seen
    /\ stats' = stats (-) SetToBag({q})
    /\ UNCHANGED <<tasks, dels, phase, reqs, hist>>

\* -------------------------------------------------------- DELETE /:slug
\* The parameter checks and the read of position 0.
DeleteFind(st, slug, key, ok) ==
    LET r == Lindex(st, slug, 0)
    IN  IF slug = NoStr \/ slug = Bang
        THEN [status |-> StatusBadRequest, cont |-> FALSE, val |-> NoStr]
        ELSE IF key = NoStr
        THEN [status |-> StatusBadRequest, cont |-> FALSE, val |-> NoStr]
        ELSE IF ~ok \/ r.err \/ r.val = NoStr
        THEN [status |-> StatusBadRequest, cont |-> FALSE, val |-> NoStr]
        ELSE [status |-> NoStatus, cont |-> TRUE, val |-> r.val]

Delete(slug, key, ok) ==
    /\ Accepting
    /\ LET out == DeleteFind(store, slug, key, ok)
       IN  IF out.cont
           THEN /\ dels' = dels (+) SetToBag({[slug |-> slug, key |-> key,
                                               pc |-> "lindex1", val |-> out.val]})
                /\ last' = last
           ELSE /\ dels' = dels
                /\ last' = Response("delete", out.status, NoStr, NoStr, NoStr)
    /\ reqs' = reqs + 1
    /\ UNCHANGED <<store, tasks, stats, phase, hist, seen>>

\* Seeded fault: the key supplied is not compared with the one stored.
DeleteCheckAnyKey(st, d, ok) ==
    LET r == Lindex(st, d.slug, 1)
    IN  IF ~ok \/ r.err THEN [status |-> StatusBadRequest, cont |-> FALSE]
        ELSE [status |-> NoStatus, cont |-> TRUE]

\* The read of position 1 and the comparison with the key supplied.
DeleteCheck(st, d, ok) ==
    LET r == Lindex(st, d.slug, 1)
    IN  IF ~ok \/ r.err THEN [status |-> StatusBadRequest, cont |-> FALSE]
        ELSE IF r.val # d.key THEN [status |-> StatusUnauthorized, cont |-> FALSE]
        ELSE [status |-> NoStatus, cont |-> TRUE]

DeleteLindex1(d, ok) ==
    /\ d \in BagToSet(dels)
    /\ d.pc = "lindex1"
    /\ LET out == DeleteCheck(store, d, ok)
       IN  IF out.cont
           THEN /\ dels' = (dels (-) SetToBag({d})) (+) SetToBag({[d EXCEPT !.pc = "del"]})
                /\ last' = last
           ELSE /\ dels' = dels (-) SetToBag({d})
                /\ last' = Response("delete", out.status, NoStr, NoStr, NoStr)
    /\ UNCHANGED <<store, tasks, stats, phase, reqs, hist, seen>>

\* DEL and the response.
DeleteRemove(st, d, ok) ==
    IF ~ok THEN [status |-> StatusInternalServerError, st |-> st]
    ELSE IF d.val = NoStr THEN [status |-> StatusInternalServerError, st |-> Del(st, d.slug)]
    ELSE [status |-> StatusOK, st |-> Del(st, d.slug)]

DeleteDel(d, ok) ==
    /\ d \in BagToSet(dels)
    /\ d.pc = "del"
    /\ LET out == DeleteRemove(store, d, ok)
       IN  /\ store' = out.st
           /\ last' = Response("delete", out.status, NoStr, NoStr, NoStr)
           /\ hist' = IF out.status = StatusOK /\ d.slug \in DrawnSlugs
                      THEN [hist EXCEPT ![d.slug].gone = TRUE]
                      ELSE hist
    /\ seen' = IF ok THEN Written(d.slug) ELSE seen
    /\ dels' = dels (-) SetToBag({d})
    /\ UNCHANGED <<tasks, stats, phase, reqs>>

\* ------------------------------------------------------------- shutdown
\* _ = <-c: the signal arrives and app.Shutdown() closes the listener.
Signal ==
    /\ phase = "serving"
    /\ phase' = "draining"
    /\ UNCHANGED <<store, tasks, stats, dels, last, reqs, hist, seen>>

\* app.Shutdown() returns once no handler is running.
ShutdownReturns ==
    /\ phase = "draining"
    /\ stats = EmptyBag
    /\ dels = EmptyBag
    /\ phase' = "stopped"
    /\ UNCHANGED <<store, tasks, stats, dels, last, reqs, hist, seen>>

\* client.Close()
Close ==
    /\ phase = "stopped"
    /\ phase' = "closed"
    /\ UNCHANGED <<store, tasks, stats, dels, last, reqs, hist, seen>>

\* main returns: the process and its goroutines end.
Exit ==
    /\ phase = "closed"
    /\ phase' = "exited"
    /\ UNCHANGED <<store, tasks, stats, dels, last, reqs, hist, seen>>

Next ==
    \/ \E url \in UrlInputs : \E fail \in NewFailures(url) :
          \E sb \in SlugBytes(url, fail), kb \in KeyBytes(url, fail) :
              New(url, sb, kb, fail)
    \/ \E slug \in SlugInputs, ok \in BOOLEAN : Get(slug, ok)
    \/ \E t \in BagToSet(tasks), ok \in BOOLEAN : TaskLindex(t, ok)
    \/ \E t \in BagToSet(tasks), ok \in BOOLEAN : TaskLset(t, ok)
    \/ \E slug \in SlugInputs, key \in KeyInputs, ok \in BOOLEAN : Clicks(slug, key, ok)
    \/ \E q \in BagToSet(stats), ok \in BOOLEAN : ClicksLindex2(q, ok)
    \/ \E slug \in SlugInputs, key \in KeyInputs, ok \in BOOLEAN : Delete(slug, key, ok)
    \/ \E d \in BagToSet(dels), ok \in BOOLEAN : DeleteLindex1(d, ok)
    \/ \E d \in BagToSet(dels), ok \in BOOLEAN : DeleteDel(d, ok)

\* The service while it serves: no signal arrives.
Spec == Init /\ [][Next]_vars

\* main, from start to exit: the handlers and goroutines, and the shutdown
\* sequence that follows the signal.
NextMain ==
    \/ Next
    \/ Signal
    \/ ShutdownReturns
    \/ Close
    \/ Exit

SpecMain == Init /\ [][NextMain]_vars

\* POST /new for a url the handler accepts, its two calls of RandStr fed
\* with any bytes: a first request to a fresh server.
NewOfBytes(b, step, fail) ==
    /\ reqs = 0
    /\ Accepting
    /\ reqs' = reqs + 1
    /\ UNCHANGED <<tasks, stats, dels, phase, hist, seen>>
    /\ LET out == NewOutcome(store, UrlHttp, BytesFrom(5, b, step),
                             BytesFrom(KeyLen, b, step), fail)
       IN  /\ last' = Response("new", out.status, out.slug, out.key, NoStr)
           /\ store' = out.st

NextBytes ==
    \E b \in ByteValues, step \in ByteSteps : \E fail \in NewFailures(UrlHttp) :
        NewOfBytes(b, step, fail)

SpecBytes == Init /\ [][NextBytes]_vars

\* =================================================================
\* Properties
\* =================================================================
Found(url) == [status |-> StatusRedirect, body |-> url, spawn |-> TRUE]

Counter(st, slug) == Atoi(st[slug][3])

\* C1: a successful Create followed immediately by Resolve of the slug it
\* returned redirects to exactly the URL passed to that Create.
C1_CreateThenResolve ==
    [][ reqs' = reqs + 1 /\ last'.op = "new" /\ last'.status = StatusOK =>
          \A url \in UrlInputs, sb \in SlugDraws, kb \in KeyDraws :
              New(url, sb, kb, "none")
                  => GetOutcome(store', last'.slug, TRUE) = Found(url) ]_vars

\* C2: a Delete of an existing slug whose key differs from the stored admin
\* key answers 401, issues no DEL and leaves the store as it was, so that
\* Resolve still redirects to the stored URL.
C2_WrongKeyDeleteRejected ==
    [][ /\ \/ store' = store
           \/ \A slug \in SlugInputs, key \in KeyInputs, ok \in BOOLEAN :
                 ~Delete(slug, key, ok)
        /\ \A d \in BagToSet(dels) :
              ( /\ DeleteLindex1(d, TRUE)
                /\ Exists(store, d.slug)
                /\ store[d.slug][2] # d.key )
              => ( /\ last' = Response("delete", StatusUnauthorized, NoStr, NoStr, NoStr)
                   /\ store' = store
                   /\ BagCardinality(dels') = BagCardinality(dels) - 1
                   /\ CopiesIn([d EXCEPT !.pc = "del"], dels')
                        = CopiesIn([d EXCEPT !.pc = "del"], dels)
                   /\ GetOutcome(store', d.slug, TRUE) = Found(store[d.slug][1]) )
      ]_vars

C2_Witness ==
    /\ last = Response("delete", StatusUnauthorized, NoStr, NoStr, NoStr)
    /\ store # EmptyStore
    /\ dels = EmptyBag

\* C3: once a Delete with the correct key has succeeded, and until a Create
\* draws the slug again, the slug has no record: Resolve fails, Stats and
\* Delete answer as on an empty store, whatever increment goroutines of
\* earlier Resolves do in between.
C3_DeletedStaysAbsent ==
    \A s \in DrawnSlugs :
        hist[s].gone =>
            /\ ~Exists(store, s)
            /\ GetOutcome(store, s, TRUE).status = StatusBadRequest
            /\ \A key \in KeyInputs :
                  /\ ClicksCheck(store, s, key, TRUE) = ClicksCheck(EmptyStore, s, key, TRUE)
                  /\ DeleteFind(store, s, key, TRUE) = DeleteFind(EmptyStore, s, key, TRUE)

\* The slug is deleted while a goroutine of an earlier Resolve, having read
\* the counter, is about to write it.
C3_Witness ==
    \E s \in DrawnSlugs :
        /\ hist[s].gone
        /\ \E t \in BagToSet(tasks) : t.slug = s /\ t.pc = "lset"
        /\ phase = "serving"

\* C4: Stats with a key other than the stored admin key answers 401 with an
\* empty body and does not go on to read position 2; the answer is the same
\* whatever the counter holds.
CounterValues == { Sprint(n) : n \in 0..MaxRequests }

C4_WrongKeyStatsBlind ==
    [][ \A slug \in DOMAIN store, key \in DrawnKeys :
          (Clicks(slug, key, TRUE) /\ store[slug][2] # key)
              => ( /\ last' = Response("clicks", StatusUnauthorized, NoStr, NoStr, NoStr)
                   /\ stats' = stats
                   /\ \A c \in CounterValues :
                         ClicksCheck(Lset(store, slug, 2, c), slug, key, TRUE)
                           = ClicksCheck(store, slug, key, TRUE) )
      ]_vars

C4_Witness ==
    /\ last = Response("clicks", StatusUnauthorized, NoStr, NoStr, NoStr)
    /\ stats = EmptyBag
    /\ \E s \in DOMAIN store : Counter(store, s) > 0

\* C5: Resolve of a slug that has no record answers 400, never a redirect,
\* spawns no goroutine and writes nothing.
C5_ResolveAbsent ==
    [][ \A slug \in SlugInputs, ok \in BOOLEAN :
          (Get(slug, ok) /\ ~Exists(store, slug))
              => ( /\ last' = Response("get", StatusBadRequest, NoStr, NoStr, NoStr)
                   /\ tasks' = tasks
                   /\ store' = store )
      ]_vars

C5_Witness ==
    /\ last = Response("get", StatusBadRequest, NoStr, NoStr, NoStr)
    /\ store = EmptyStore
    /\ tasks = EmptyBag
    /\ \A s \in DrawnSlugs : hist[s].creates = 0

\* C6: Create never alters a record that exists: every list of the store is
\* after the step what it was before.
C6_CreateKeepsRecords ==
    [][ reqs' = reqs + 1 /\ last'.op = "new" =>
          \A url \in UrlInputs, sb \in SlugDraws, kb \in KeyDraws :
              New(url, sb, kb, "none")
                  => \A s \in DOMAIN store : s \in DOMAIN store' /\ store'[s] = store[s]
      ]_vars

\* C7: the click counter of a record never decreases while the record lives
\* (no step other than a Delete or a Create lowers position 2).
C7_CounterNeverDecreases ==
    [][ \A t \in BagToSet(tasks), ok \in BOOLEAN :
          (TaskLset(t, ok) /\ Exists(store, t.slug))
              => Counter(store', t.slug) >= Counter(store, t.slug) ]_vars

\* C8 as claimed: two Stats answers for a slug with no Resolve request
\* between them carry the same counter.
C8_StatsSameWithoutResolve ==
    \A s \in DrawnSlugs : Cardinality(seen[s].any) <= 1

\* C8 as amended: Stats writes nothing, and two Stats answers for a slug with
\* no Resolve request and no write to the slug's list between them (an
\* increment goroutine's LSET, a DEL, an RPUSH) carry the same counter.
C8_StatsSameWithoutWrite ==
    [][ /\ \/ store' = store
           \/ \A slug \in SlugInputs, key \in KeyInputs, ok \in BOOLEAN :
                 ~Clicks(slug, key, ok)
        /\ \A q \in BagToSet(stats), ok \in BOOLEAN :
              ClicksLindex2(q, ok) =>
                  /\ store' = store
                  /\ \A s \in DrawnSlugs : Cardinality(seen'[s].quiet) <= 1
      ]_vars

C8_Witness ==
    \E s \in DrawnSlugs :
        /\ seen[s].quiet # {}
        /\ seen[s].quiet # {Sprint(0)}
        /\ last.op = "clicks"
        /\ last.status = StatusOK
        /\ reqs = MaxRequests

\* C9 as claimed: after the Create of a slug and exactly one successful
\* Resolve of it, Stats with the correct key answers "1".
C9_OneResolveCountsOne ==
    [][ \A q \in BagToSet(stats) :
          ( /\ ClicksLindex2(q, TRUE)
            /\ last'.status = StatusOK
            /\ hist[q.slug].creates = 1
            /\ hist[q.slug].lookups = 1 )
          => last'.body = Sprint(1) ]_vars

\* C9 as amended: after the first Create of a slug and exactly one
\* successful Resolve of it, Stats with the correct key answers "1" once the
\* Resolve's goroutine has written the counter, and "0" until then or when
\* the goroutine failed.
C9_OneResolveCountsWrites ==
    [][ \A q \in BagToSet(stats) :
          ( /\ ClicksLindex2(q, TRUE)
            /\ last'.status = StatusOK
            /\ hist[q.slug].creates = 1
            /\ hist[q.slug].lookups = 1 )
          => ( /\ hist[q.slug].writes \in {0, 1}
               /\ last'.body = Sprint(hist[q.slug].writes) ) ]_vars

C9_Witness ==
    \E s \in DrawnSlugs :
        /\ hist[s] = [creates |-> 1, lookups |-> 1, since |-> 1, writes |-> 1,
                     gone |-> FALSE]
        /\ last = Response("clicks", StatusOK, NoStr, NoStr, Sprint(1))
        /\ seen[s].quiet = {Sprint(1)}

\* C10: Create without a url, or with one the validator must reject, answers
\* 400 with no slug and no key and leaves the store as it was.
RejectedUrls == {NoStr, UrlFtp, UrlShortTld, UrlWithPath}

C10_BadUrlRejected ==
    [][ reqs' = reqs + 1 /\ last'.op = "new" =>
          \A url \in RejectedUrls : \A fail \in NewFailures(url) :
            \A sb \in SlugBytes(url, fail), kb \in KeyBytes(url, fail) :
              New(url, sb, kb, fail)
                  => ( /\ last' = Response("new", StatusBadRequest, NoStr, NoStr, NoStr)
                       /\ store' = store )
      ]_vars

C10_Witness ==
    /\ last = Response("new", StatusBadRequest, NoStr, NoStr, NoStr)
    /\ store # EmptyStore

\* C11: every list of the store has exactly three elements, a url the
\* validator accepts, an admin key RandStr produced and the decimal form
\* of a counter that is not negative.
C11_ThreeElements ==
    \A s \in DOMAIN store :
        /\ Len(store[s]) = 3
        /\ ValidateUrl(store[s][1])
        /\ store[s][2] \in DrawnKeys
        /\ IsDigits(store[s][3])

\* The 62 letters and digits, written out.
Alphanumerics ==
    { "a","b","c","d","e","f","g","h","i","j","k","l","m",
      "n","o","p","q","r","s","t","u","v","w","x","y","z",
      "A","B","C","D","E","F","G","H","I","J","K","L","M",
      "N","O","P","Q","R","S","T","U","V","W","X","Y","Z",
      "0","1","2","3","4","5","6","7","8","9" }

\* C12: the slug of every successful Create is "!" and exactly five
\* letters or digits, and its key exactly 64 letters or digits, whatever
\* bytes the random source delivered.
C12_SlugAndKeyFormat ==
    (last.op = "new" /\ last.status = StatusOK)
        => /\ Len(last.slug) = 6
           /\ last.slug[1] = "!"
           /\ \A i \in 2..6 : last.slug[i] \in Alphanumerics
           /\ Len(last.key) = 64
           /\ \A i \in 1..64 : last.key[i] \in Alphanumerics
           /\ Cardinality(Alphanumerics) = 62

\* A Create whose draws were all bytes of 255 has answered: 255 % 62 = 7.
C12_Witness ==
    /\ last.op = "new"
    /\ last.status = StatusOK
    /\ last.slug = << "!", "h", "h", "h", "h", "h" >>
    /\ last.key = [ i \in 1..64 |-> "h" ]

\* C13: the increment is a read and a later write of the value read plus
\* one: the read writes nothing, and a write that takes effect sets the
\* counter to the goroutine's own valint + 1 whatever the counter is by
\* then.  Two Resolves of one slug can therefore both write and raise the
\* counter by one only (C13_Witness).
C13_WriteOfOwnRead ==
    [][ \A t \in BagToSet(tasks) :
          /\ \A ok \in BOOLEAN : TaskLindex(t, ok) => store' = store
          /\ (TaskLset(t, TRUE) /\ ~LsetErr(store, t.slug, 2))
                 => Counter(store', t.slug) = t.valint + 1
      ]_vars

\* A slug created once and never deleted, resolved twice, both increments
\* written without error and finished, and the counter at 1.
C13_Witness ==
    \E s \in DrawnSlugs :
        /\ hist[s] = [creates |-> 1, lookups |-> 2, since |-> 2, writes |-> 2,
                     gone |-> FALSE]
        /\ tasks = EmptyBag
        /\ Exists(store, s)
        /\ Counter(store, s) = 1

\* C14: the response of Resolve is the redirect to position 0 whenever the
\* handler's read of it succeeds, and a 400 otherwise, whatever the counter
\* and the goroutines in flight; no step of the increment goroutine changes
\* a response, and a step of it that fails leaves the store as it was.
C14_ResponseFromFirstRead ==
    [][ /\ (reqs' = reqs + 1 /\ last'.op = "get") =>
              \A slug \in SlugInputs, ok \in BOOLEAN :
                  Get(slug, ok) =>
                      last' = IF ok /\ Exists(store, slug)
                              THEN Response("get", StatusRedirect, NoStr, NoStr,
                                            store[slug][1])
                              ELSE Response("get", StatusBadRequest, NoStr, NoStr,
                                            NoStr)
        /\ \A t \in BagToSet(tasks) :
              /\ \A ok \in BOOLEAN :
                    (TaskLindex(t, ok) \/ TaskLset(t, ok)) => last' = last
              /\ (TaskLindex(t, FALSE) \/ TaskLset(t, FALSE)) => store' = store
              /\ (TaskLset(t, TRUE) /\ LsetErr(store, t.slug, 2)) => store' = store
      ]_vars

\* The last response is the redirect of the only Resolve of a slug, and
\* the goroutine it spawned has ended without writing: the record is as
\* Create left it.
C14_Witness ==
    \E s \in DrawnSlugs :
        /\ hist[s] = [creates |-> 1, lookups |-> 1, since |-> 1, writes |-> 0,
                     gone |-> FALSE]
        /\ tasks = EmptyBag
        /\ Exists(store, s)
        /\ Counter(store, s) = 0
        /\ last = Response("get", StatusRedirect, NoStr, NoStr, store[s][1])

\* C15: no step rewrites the target url or the admin key of a record: a
\* list that exists before and after a step keeps its positions 0 and 1,
\* and the goroutine's LSET changes nothing but position 2 of its slug.
C15_UrlAndKeyKept ==
    [][ /\ \A s \in DOMAIN store \cap DOMAIN store' :
              /\ store'[s][1] = store[s][1]
              /\ store'[s][2] = store[s][2]
        /\ \A t \in BagToSet(tasks), ok \in BOOLEAN :
              TaskLset(t, ok) =>
                  /\ DOMAIN store' = DOMAIN store
                  /\ \A s \in DOMAIN store :
                        /\ Len(store'[s]) = Len(store[s])
                        /\ \A i \in 1..Len(store[s]) :
                              (s # t.slug \/ i # 3) => store'[s][i] = store[s][i]
      ]_vars

\* A record that a second Create appended to and an increment wrote to
\* still starts with the url and key of its first Create.
C15_Witness ==
    \E s \in DrawnSlugs :
        /\ Exists(store, s)
        /\ Len(store[s]) = 6
        /\ hist[s].creates = 2
        /\ hist[s].writes >= 1
        /\ Counter(store, s) >= 1
        /\ store[s][2] # store[s][5]

\* C16: a store command or a read of the random source that fails in
\* Create, Stats or Delete is answered with 500, and the handler issues no
\* further command: it leaves the store as it was and does not go on to
\* its next read.  The commands of Stats and Delete are taken on a list
\* that exists, where only the failure of the command can stop them.
C16_StoreFailureIs500 ==
    [][ /\ (reqs' = reqs + 1 /\ last'.op = "new") =>
              \A url \in UrlInputs : \A fail \in NewFailures(url) \ {"none"} :
                  \A sb \in SlugBytes(url, fail), kb \in KeyBytes(url, fail) :
                      New(url, sb, kb, fail)
                          => last'.status = StatusInternalServerError /\ store' = store
        /\ (reqs' = reqs + 1 /\ last'.op \in {"clicks", "delete"}) =>
              \A slug \in DOMAIN store, key \in DrawnKeys :
                  (Clicks(slug, key, FALSE) \/ Delete(slug, key, FALSE))
                      => /\ last'.status = StatusInternalServerError
                         /\ stats' = stats
                         /\ dels' = dels
        /\ \A q \in BagToSet(stats) :
              (ClicksLindex2(q, FALSE) /\ Exists(store, q.slug))
                  => last'.status = StatusInternalServerError /\ store' = store
        /\ \A d \in BagToSet(dels) :
              ((DeleteLindex1(d, FALSE) \/ DeleteDel(d, FALSE)) /\ Exists(store, d.slug))
                  => /\ last'.status = StatusInternalServerError
                     /\ store' = store
                     /\ d \notin BagToSet(dels')
      ]_vars

\* C17: main moves from serving to the shutdown of the HTTP layer, from
\* there to its end, only then to the close of the store client, and
\* closes it once; once the client is closed no handler and no increment
\* goroutine issues a store command.
C17_NoCommandAfterClose ==
    [][ /\ phase' # phase =>
              <<phase, phase'>> \in { <<"serving", "draining">>,
                                      <<"draining", "stopped">>,
                                      <<"stopped", "closed">>,
                                      <<"closed", "exited">> }
        /\ Close => (stats = EmptyBag /\ dels = EmptyBag)
        /\ phase \in {"closed", "exited"} =>
              /\ \A t \in BagToSet(tasks), ok \in BOOLEAN :
                    ~TaskLindex(t, ok) /\ ~TaskLset(t, ok)
              /\ \A q \in BagToSet(stats), ok \in BOOLEAN : ~ClicksLindex2(q, ok)
              /\ \A d \in BagToSet(dels), ok \in BOOLEAN :
                    ~DeleteLindex1(d, ok) /\ ~DeleteDel(d, ok)
              /\ reqs' = reqs
      ]_vars

\* C18: the slug and key a successful Create returns are a credential that
\* works at once: position 1 of the slug's list is the key returned, so
\* the key checks of Stats and Delete with that pair do not answer 401.
C18_ReturnedKeyWorks ==
    [][ (reqs' = reqs + 1 /\ last'.op = "new" /\ last'.status = StatusOK) =>
            /\ Lindex(store', last'.slug, 1) = [err |-> FALSE, val |-> last'.key]
            /\ ClicksCheck(store', last'.slug, last'.key, TRUE).status
                   # StatusUnauthorized
            /\ DeleteCheck(store', [slug |-> last'.slug, key |-> last'.key], TRUE).status
                   # StatusUnauthorized
      ]_vars

\* C19: a list leaves the store only by the DEL of a Delete handler, and
\* the key that handler was given is position 1 of the list it removes.
C19_RemovedByItsKey ==
    [][ /\ (\E s \in DOMAIN store : s \notin DOMAIN store')
              => \E d \in BagToSet(dels) : DeleteDel(d, TRUE)
        /\ \A d \in BagToSet(dels) :
              (DeleteDel(d, TRUE) /\ Exists(store, d.slug))
                  => store[d.slug][2] = d.key
      ]_vars

\* C20: the counter of a record is at most the number of successful
\* lookups of its slug since the Create that wrote the record.
C20_NoOverCount ==
    \A s \in DOMAIN store :
        IsDigits(store[s][3]) /\ Counter(store, s) <= hist[s].since

====
